---- MODULE Spec2Model ----
(***************************************************************************)
(* Model of src/app.py: the field resolver get_value, the per-record       *)
(* normalisation and table construction of parse_apify_data, the metrics   *)
(* of calculate_metrics, the report summary of get_gemini_analysis and the *)
(* analyze-button handler that stores the results in the session.          *)
(***************************************************************************)
EXTENDS Integers, Sequences, FiniteSets, TLC

VARIABLES
    pc,          \* position of the operation under check
    call,        \* arguments of a get_value call: [obj, keys, default]
    ret,         \* value returned by the get_value call
    item,        \* raw record handed to the per-item body of parse_apify_data
    video_info,  \* outcome of the per-item body: a record or a raised exception
    raw_data,    \* the batch of raw records handed to parse_apify_data
    df,          \* the DataFrame parse_apify_data returned, as it is now
    metrics,     \* what calculate_metrics returned or raised
    prompt,      \* the summary get_gemini_analysis puts in the prompt
    session_state,  \* st.session_state
    cache,          \* the st.cache_data entries of fetch_tiktok_data
    gemini_result   \* what get_gemini_analysis returned in the last analysis

vars == <<pc, call, ret, item, video_info, raw_data, df, metrics, prompt,
          session_state, cache, gemini_result>>

(***************************************************************************)
(* JSON values of the raw records, tagged by their Python type.            *)
(***************************************************************************)
Null == [t |-> "null", v |-> 0]
IntV(n) == [t |-> "int", v |-> n]
StrV(s) == [t |-> "str", v |-> s]
MapV(f) == [t |-> "map", v |-> f]
EmptyMap == MapV(<<>>)
\* an exception leaving a function, and a variable no operation has set
Raise(e) == [t |-> "raise", v |-> e]
Idle == [t |-> "idle", v |-> 0]

\* isinstance(obj, dict)
IsDict(x) == x.t = "map"
\* key in obj, obj a dict
Has(obj, key) == key \in DOMAIN obj.v
\* obj.get(key, dflt), obj a dict
Get(obj, key, dflt) == IF Has(obj, key) THEN obj.v[key] ELSE dflt
\* Python truthiness of a JSON value
Truthy(x) ==
    CASE x.t = "null" -> FALSE
      [] x.t = "int" -> x.v # 0
      [] x.t = "str" -> x.v # ""
      [] x.t = "map" -> DOMAIN x.v # {}
      [] OTHER -> TRUE

(***************************************************************************)
(* get_value, app.py 180-186: the first candidate key present in obj       *)
(* decides the result; a null value there yields the default.              *)
(***************************************************************************)
\* get_value without the null test of line 185
RECURSIVE get_value_keeps_null(_, _, _)
get_value_keeps_null(obj, keys, default) ==
    IF keys = <<>> THEN default
    ELSE IF IsDict(obj) /\ Has(obj, Head(keys))
         THEN obj.v[Head(keys)]
         ELSE get_value_keeps_null(obj, Tail(keys), default)

RECURSIVE get_value(_, _, _)
get_value(obj, keys, default) ==
    IF keys = <<>> THEN default
    ELSE IF IsDict(obj) /\ Has(obj, Head(keys))
         THEN LET val == obj.v[Head(keys)]
              IN  IF val.t # "null" THEN val ELSE default
         ELSE get_value(obj, Tail(keys), default)

(***************************************************************************)
(* The candidate keys and default of each field, app.py 189-201.           *)
(***************************************************************************)
IdKeys == <<"id", "videoId", "awemeId">>
TextKeys == <<"desc", "description", "text", "caption">>
CreateTimeKeys == <<"createTime", "create_time", "createDate">>
DurationKeys == <<"duration">>
PlayKeys == <<"playCount", "play_count", "viewCount", "views", "statsV2.playCount">>
DiggKeys == <<"diggCount", "digg_count", "likeCount", "likes", "statsV2.diggCount">>
ShareKeys == <<"shareCount", "share_count", "shares", "statsV2.shareCount">>
CommentKeys == <<"commentCount", "comment_count", "comments", "statsV2.commentCount">>
CollectKeys == <<"collectCount", "collect_count", "collects", "statsV2.collectCount">>
UsernameKeys == <<"uniqueId", "unique_id", "username", "nickname">>
NicknameKeys == <<"nickname", "nickName", "displayName">>
FollowerKeys == <<"followerCount", "follower_count", "followers">>

\* the columns of a normalised record, in the order of the dict literal
BaseColumns ==
    <<"id", "text", "createTime", "createDate", "duration", "playCount",
      "diggCount", "shareCount", "commentCount", "collectCount",
      "authorUsername", "authorNickname", "authorFollowers">>

(***************************************************************************)
(* The three record shapes, app.py 160-177.                                *)
(***************************************************************************)
Shape(it) ==
    IF Has(it, "playCount") \/ Has(it, "stats") THEN "flat"
    ELSE IF Has(it, "video") THEN "nested"
    ELSE "freeform"

VideoData(it) ==
    IF Shape(it) = "nested" THEN Get(it, "video", EmptyMap) ELSE it

\* only evaluated when VideoData(it) is a dict (see NormalizeRaises)
StatsOf(it) ==
    CASE Shape(it) = "flat" -> Get(it, "stats", it)
      [] Shape(it) = "nested" -> Get(VideoData(it), "stats", EmptyMap)
      [] OTHER -> it

AuthorData(it) ==
    IF Shape(it) = "freeform"
    THEN Get(it, "author", Get(it, "authorStats", EmptyMap))
    ELSE Get(it, "author", EmptyMap)

\* .get called on a value that is not a dict raises AttributeError: line 169
\* (video_data.get) and line 201 (author_data.get)
NormalizeRaises(it) ==
    \/ Shape(it) = "nested" /\ ~IsDict(VideoData(it))
    \/ ~IsDict(AuthorData(it))

\* datetime.fromtimestamp(t).strftime("%Y-%m-%d %H:%M"): one string per minute
FormatTimestamp(n) == StrV("date@" \o ToString(n \div 60))

EpochThreshold == 1000000000

\* app.py 205-214
CreateDate(ct) ==
    IF ~Truthy(ct) THEN StrV("")
    ELSE IF ct.t = "int" /\ ct.v > EpochThreshold THEN FormatTimestamp(ct.v)
    ELSE IF ct.t = "str" THEN ct
    ELSE StrV("")

\* line 193
DurationOf(vd) ==
    IF IsDict(Get(vd, "video", Null))
    THEN get_value(Get(vd, "video", EmptyMap), DurationKeys, IntV(0))
    ELSE IntV(0)

\* the dict literal of lines 188-202 followed by lines 205-214
VideoInfo(it) ==
    LET vd == VideoData(it)
        st == StatsOf(it)
        au == AuthorData(it)
        ct == get_value(vd, CreateTimeKeys, IntV(0))
    IN  [id |-> get_value(vd, IdKeys, StrV("")),
         text |-> get_value(vd, TextKeys, StrV("")),
         createTime |-> ct,
         createDate |-> CreateDate(ct),
         duration |-> DurationOf(vd),
         playCount |-> get_value(st, PlayKeys, IntV(0)),
         diggCount |-> get_value(st, DiggKeys, IntV(0)),
         shareCount |-> get_value(st, ShareKeys, IntV(0)),
         commentCount |-> get_value(st, CommentKeys, IntV(0)),
         collectCount |-> get_value(st, CollectKeys, IntV(0)),
         authorUsername |-> get_value(au, UsernameKeys, StrV("")),
         authorNickname |-> get_value(au, NicknameKeys, StrV("")),
         authorFollowers |-> get_value(Get(au, "stats", EmptyMap), FollowerKeys, IntV(0))]

\* the body of the loop of parse_apify_data for one item, lines 157-216
NormalizeItem(it) ==
    IF NormalizeRaises(it) THEN Raise("AttributeError")
    ELSE [t |-> "rec", v |-> VideoInfo(it)]

(***************************************************************************)
(* Numbers: pandas means and the derived ratios are floats, modelled as    *)
(* exact fractions <<numerator, denominator>> in lowest terms.             *)
(***************************************************************************)
Abs(x) == IF x < 0 THEN -x ELSE x

RECURSIVE GCD(_, _)
GCD(a, b) == IF b = 0 THEN a ELSE GCD(b, a % b)

\* n / d, d # 0
Frac(n, d) ==
    LET g == GCD(Abs(n), Abs(d))
        sg == IF d < 0 THEN -1 ELSE 1
    IN  <<(sg * n) \div g, (sg * d) \div g>>

FloatV(q) == [t |-> "float", v |-> q]
ListV(s) == [t |-> "list", v |-> s]
\* the numeric value of an int or float cell
RatOf(x) == IF x.t = "int" THEN <<x.v, 1>> ELSE x.v
RAdd(p, q) == Frac(p[1] * q[2] + q[1] * p[2], p[2] * q[2])
RSub(p, q) == Frac(p[1] * q[2] - q[1] * p[2], p[2] * q[2])
RMul(p, q) == Frac(p[1] * q[1], p[2] * q[2])
RDiv(p, q) == Frac(p[1] * q[2], p[2] * q[1])
RPos(p) == p[1] > 0

RECURSIVE SumInts(_)
SumInts(s) == IF s = <<>> THEN 0 ELSE Head(s) + SumInts(Tail(s))

RECURSIVE SumRats(_)
SumRats(s) == IF s = <<>> THEN <<0, 1>> ELSE RAdd(Head(s), SumRats(Tail(s)))

(***************************************************************************)
(* DataFrames: the column names and the rows in index order.               *)
(***************************************************************************)
DataFrame(cols, rows) == [t |-> "df", columns |-> cols, rows |-> rows]
\* pd.DataFrame()
EmptyDataFrame == DataFrame(<<>>, <<>>)
\* df.empty
IsEmpty(d) == d.rows = <<>> \/ d.columns = <<>>
\* the int cells of a column, in row order
Column(rows, col) == [i \in DOMAIN rows |-> rows[i][col].v]

RECURSIVE Perms(_)
Perms(G) ==
    IF G = {} THEN {<<>>}
    ELSE UNION { { <<x>> \o q : q \in Perms(G \ {x}) } : x \in G }

\* argsort(kind="quicksort"): the orders of the indices S by ascending
\* sign * key; quicksort is not stable, equal keys come in any order
RECURSIVE SortedIdx(_, _, _)
SortedIdx(keys, sign, S) ==
    IF S = {} THEN {<<>>}
    ELSE LET m == CHOOSE x \in { sign * keys[i] : i \in S } :
                      \A i \in S : x <= sign * keys[i]
             G == { i \in S : sign * keys[i] = m }
         IN  { q \o rest : q \in Perms(G), rest \in SortedIdx(keys, sign, S \ G) }

\* argsort(kind="mergesort"): ascending sign * key, equal keys in index order
RECURSIVE StableIdx(_, _, _)
StableIdx(keys, sign, S) ==
    IF S = {} THEN <<>>
    ELSE LET i == CHOOSE a \in S : \A b \in S :
                      \/ sign * keys[a] < sign * keys[b]
                      \/ sign * keys[a] = sign * keys[b] /\ a <= b
         IN  <<i>> \o StableIdx(keys, sign, S \ {i})

Take(rows, idx) == [k \in DOMAIN idx |-> rows[idx[k]]]
FirstN(s, n) == SubSeq(s, 1, IF Len(s) < n THEN Len(s) ELSE n)
LastN(s, n) == SubSeq(s, IF Len(s) < n THEN 1 ELSE Len(s) - n + 1, Len(s))

(***************************************************************************)
(* parse_apify_data, app.py 141-229.                                       *)
(***************************************************************************)
\* sort_values("createTime", ascending=False) compares the cells: a column
\* mixing integers with other values raises TypeError (a column of strings
\* only, ordered lexicographically, is not among the batches drawn)
Unsortable(rows) == Len(rows) >= 2 /\ \E i \in DOMAIN rows : rows[i].createTime.t # "int"

\* line 227: the default kind of sort_values is quicksort
SortValuesDesc(rows) ==
    IF Len(rows) < 2 THEN {rows}
    ELSE { Take(rows, o) : o \in SortedIdx(Column(rows, "createTime"), -1, DOMAIN rows) }

\* the table or the exception parse_apify_data ends with
ParseOutcomes(raw) ==
    IF raw = <<>> THEN {EmptyDataFrame}
    ELSE LET recs == [i \in DOMAIN raw |-> NormalizeItem(raw[i])]
         IN  IF \E i \in DOMAIN recs : recs[i].t = "raise"
             THEN {Raise("AttributeError")}
             ELSE LET rows == [i \in DOMAIN recs |-> recs[i].v]
                  IN  IF Unsortable(rows) THEN {Raise("TypeError")}
                      ELSE { DataFrame(BaseColumns, r) : r \in SortValuesDesc(rows) }

(***************************************************************************)
(* calculate_metrics, app.py 231-283.                                      *)
(***************************************************************************)
Range(s) == { s[i] : i \in DOMAIN s }

CountColumns == {"playCount", "diggCount", "shareCount", "commentCount"}
DerivedColumns == <<"viralRatio", "engagementRate", "conversionPotential">>

\* lines 240-245: the means and sums raise TypeError on a cell that is no number
MetricsRaises(d) ==
    \E i \in DOMAIN d.rows : \E c \in CountColumns : d.rows[i][c].t # "int"

\* line 250
ViralRatio(row) ==
    IF row.diggCount.v > 0 THEN Frac(row.shareCount.v, row.diggCount.v) ELSE <<0, 1>>

\* lines 257-258
EngagementRate(row) ==
    IF row.playCount.v > 0
    THEN RMul(Frac(row.diggCount.v + row.shareCount.v + row.commentCount.v, row.playCount.v),
              <<100, 1>>)
    ELSE <<0, 1>>

\* the conversion potential with shares counted once
ConversionPotential_unweighted(row) ==
    IF row.playCount.v > 0
    THEN RMul(Frac(row.shareCount.v + row.commentCount.v, row.playCount.v), <<100, 1>>)
    ELSE <<0, 1>>

\* lines 265-266
ConversionPotential(row) ==
    IF row.playCount.v > 0
    THEN RMul(Frac(row.shareCount.v * 2 + row.commentCount.v, row.playCount.v), <<100, 1>>)
    ELSE <<0, 1>>

\* df[col] = ...: a new column is appended, an existing one overwritten
AssignColumn(cols, c) == IF c \in Range(cols) THEN cols ELSE Append(cols, c)

\* lines 249, 256, 264: the three columns are written into the frame passed in
WithDerived(d) ==
    DataFrame(
        AssignColumn(AssignColumn(AssignColumn(d.columns, "viralRatio"),
                                  "engagementRate"), "conversionPotential"),
        [i \in DOMAIN d.rows |->
            ("viralRatio" :> FloatV(ViralRatio(d.rows[i])))
            @@ ("engagementRate" :> FloatV(EngagementRate(d.rows[i])))
            @@ ("conversionPotential" :> FloatV(ConversionPotential(d.rows[i])))
            @@ d.rows[i]])

TopN == 3
TrendRows == 20
TrendWindow == 10

\* nlargest (sign -1) and nsmallest (sign 1) of playCount, keep="first": with
\* fewer than n rows left out pandas sorts the whole column with sort_values
\* (quicksort, equal values in any order) and takes its head; otherwise the
\* candidates are ordered by a mergesort, equal values in table order
SelectN(rows, n, sign) ==
    IF n >= Len(rows)
    THEN { FirstN(Take(rows, o), n) :
             o \in SortedIdx(Column(rows, "playCount"), sign, DOMAIN rows) }
    ELSE { FirstN(Take(rows, StableIdx(Column(rows, "playCount"), sign, DOMAIN rows)), n) }

\* the trend computed from 10 rows on, the two windows overlapping
Trend_from_window(rows) ==
    IF Len(rows) >= TrendWindow
    THEN LET play == Column(rows, "playCount")
             recent_10 == Frac(SumInts(FirstN(play, TrendWindow)), TrendWindow)
             older_10 == Frac(SumInts(LastN(play, TrendWindow)), TrendWindow)
         IN  IF RPos(older_10)
             THEN FloatV(RMul(RDiv(RSub(recent_10, older_10), older_10), <<100, 1>>))
             ELSE IntV(0)
    ELSE IntV(0)

\* lines 276-281
Trend(rows) ==
    IF Len(rows) >= TrendRows
    THEN LET play == Column(rows, "playCount")
             recent_10 == Frac(SumInts(FirstN(play, TrendWindow)), TrendWindow)
             older_10 == Frac(SumInts(LastN(play, TrendWindow)), TrendWindow)
         IN  IF RPos(older_10)
             THEN FloatV(RMul(RDiv(RSub(recent_10, older_10), older_10), <<100, 1>>))
             ELSE IntV(0)
    ELSE IntV(0)

MeanInts(s) == FloatV(Frac(SumInts(s), Len(s)))
MeanRats(s) == FloatV(RDiv(SumRats(s), <<Len(s), 1>>))
ToDictRecords(rows) == ListV([i \in DOMAIN rows |-> MapV(rows[i])])

\* the dict built by lines 238-281 for a non-empty frame d (derived columns
\* written) and the selections top and flop
MetricsDict(d, top, flop) ==
    LET rows == d.rows
        play == Column(rows, "playCount")
        digg == Column(rows, "diggCount")
        share == Column(rows, "shareCount")
        comment == Column(rows, "commentCount")
    IN  MapV([total_videos |-> IntV(Len(rows)),
              avg_views |-> MeanInts(play),
              avg_likes |-> MeanInts(digg),
              avg_shares |-> MeanInts(share),
              avg_comments |-> MeanInts(comment),
              total_views |-> IntV(SumInts(play)),
              total_engagement |->
                  IntV(SumInts([i \in DOMAIN rows |-> digg[i] + share[i] + comment[i]])),
              avg_viral_ratio |-> MeanRats([i \in DOMAIN rows |-> rows[i].viralRatio.v]),
              avg_engagement_rate |-> MeanRats([i \in DOMAIN rows |-> rows[i].engagementRate.v]),
              avg_conversion_potential |->
                  MeanRats([i \in DOMAIN rows |-> rows[i].conversionPotential.v]),
              top3 |-> ToDictRecords(top),
              flop3 |-> ToDictRecords(flop),
              trend |-> Trend(rows)])

\* calculate_metrics working on a copy of the frame
CalculateOutcomes_on_copy(d) ==
    IF IsEmpty(d) THEN {[metrics |-> EmptyMap, df |-> d]}
    ELSE IF MetricsRaises(d) THEN {[metrics |-> Raise("TypeError"), df |-> d]}
    ELSE LET d2 == WithDerived(d)
         IN  { [metrics |-> MetricsDict(d2, top, flop), df |-> d] :
                 top \in SelectN(d2.rows, TopN, -1), flop \in SelectN(d2.rows, TopN, 1) }

\* what a call calculate_metrics(d) ends with: the value returned (or the
\* exception raised) and the frame d as the call leaves it
CalculateOutcomes(d) ==
    IF IsEmpty(d) THEN {[metrics |-> EmptyMap, df |-> d]}
    ELSE IF MetricsRaises(d) THEN {[metrics |-> Raise("TypeError"), df |-> d]}
    ELSE LET d2 == WithDerived(d)
         IN  { [metrics |-> MetricsDict(d2, top, flop), df |-> d2] :
                 top \in SelectN(d2.rows, TopN, -1), flop \in SelectN(d2.rows, TopN, 1) }

(***************************************************************************)
(* get_gemini_analysis, app.py 288-373: the summary placed in the prompt.  *)
(***************************************************************************)
RECURSIVE Pow10(_)
Pow10(n) == IF n = 0 THEN 1 ELSE 10 * Pow10(n - 1)

\* round(x, nd): an int is returned as it is, a float rounded to nd decimals
Round(x, nd) ==
    IF x.t = "int" THEN x
    ELSE LET sc == Pow10(nd)
             n == x.v[1] * sc
             d == x.v[2]
             fl == n \div d
             r == n % d
             up == 2 * r > d \/ (2 * r = d /\ fl % 2 = 1)
         IN  FloatV(Frac(IF up THEN fl + 1 ELSE fl, sc))

\* lines 298-308
DataSummary(m, username) ==
    MapV([username |-> StrV(username),
          total_videos_analyzed |-> Get(m, "total_videos", IntV(0)),
          avg_views |-> Round(Get(m, "avg_views", IntV(0)), 2),
          avg_likes |-> Round(Get(m, "avg_likes", IntV(0)), 2),
          avg_shares |-> Round(Get(m, "avg_shares", IntV(0)), 2),
          avg_comments |-> Round(Get(m, "avg_comments", IntV(0)), 2),
          avg_engagement_rate |-> Round(Get(m, "avg_engagement_rate", IntV(2)), 2),
          avg_viral_ratio |-> Round(Get(m, "avg_viral_ratio", IntV(4)), 4),
          trend_percentage |-> Round(Get(m, "trend", IntV(2)), 2)])

\* lines 313-322 and 327-336; text[:100] keeps the captions drawn, all shorter
VideoSummary(video, rank) ==
    MapV([rank |-> IntV(rank),
          views |-> Get(video, "playCount", IntV(0)),
          likes |-> Get(video, "diggCount", IntV(0)),
          shares |-> Get(video, "shareCount", IntV(0)),
          comments |-> Get(video, "commentCount", IntV(0)),
          text_preview |-> Get(video, "text", StrV("")),
          duration_sec |-> Get(video, "duration", IntV(0)),
          date |-> Get(video, "createDate", StrV(""))])

VideoSummaries(m, key) ==
    LET videos == Get(m, key, ListV(<<>>)).v
    IN  ListV([i \in DOMAIN videos |-> VideoSummary(videos[i], i)])

\* slicing a caption that is no string raises TypeError (lines 319, 333)
PromptRaises(m) ==
    \E key \in {"top3", "flop3"} :
        LET videos == Get(m, key, ListV(<<>>)).v
        IN  \E i \in DOMAIN videos : Get(videos[i], "text", StrV("")).t # "str"

\* the data of the prompt, lines 339-366
Prompt(m, username) ==
    [data_summary |-> DataSummary(m, username),
     top3_summary |-> VideoSummaries(m, "top3"),
     flop3_summary |-> VideoSummaries(m, "flop3"),
     trend |-> Get(m, "trend", IntV(0))]

(***************************************************************************)
(* Inputs of the checks of get_value and of the per-item body.             *)
(***************************************************************************)
\* all mappings from at most n of the keys to the values
MapsOver(keys, values, n) ==
    { MapV(f) : f \in UNION { [K -> values] : K \in { S \in SUBSET keys : Cardinality(S) <= n } } }

ResolveKeys == {"playCount", "play_count", "views"}
ResolveValues == {Null, IntV(0), IntV(5), StrV("12K")}
ResolveObjs ==
    MapsOver(ResolveKeys, ResolveValues, Cardinality(ResolveKeys))
        \cup {Null, IntV(3), StrV("playCount")}
ResolveKeyLists == {PlayKeys, IdKeys, DurationKeys}
ResolveDefaults == {IntV(0), StrV("")}

MaxKeys == 2
ItemKeys ==
    {"playCount", "views", "stats", "video", "author", "authorStats",
     "createTime", "caption_raw"}
ItemValues ==
    {Null, IntV(7), IntV(1700000000), StrV("x"), EmptyMap,
     MapV("duration" :> IntV(9)),
     MapV("video" :> MapV("duration" :> IntV(9))),
     MapV("stats" :> MapV(("followerCount" :> IntV(3)) @@ ("playCount" :> IntV(5)))),
     MapV(("playCount" :> Null) @@ ("views" :> IntV(4)) @@ ("nickname" :> StrV("n")))}
Items == MapsOver(ItemKeys, ItemValues, MaxKeys)

(***************************************************************************)
(* SpecResolve: one call of get_value on drawn arguments.                   *)
(***************************************************************************)
InitResolve ==
    /\ pc = "call"
    /\ call \in [obj : ResolveObjs, keys : ResolveKeyLists, default : ResolveDefaults]
    /\ ret = Idle
    /\ item = Idle
    /\ video_info = Idle
    /\ raw_data = Idle
    /\ df = Idle
    /\ metrics = Idle
    /\ prompt = Idle
    /\ session_state = Idle
    /\ cache = Idle
    /\ gemini_result = Idle

GetValueCall ==
    /\ pc = "call"
    /\ ret' = get_value(call.obj, call.keys, call.default)
    /\ pc' = "returned"
    /\ UNCHANGED <<call, item, video_info, raw_data, df, metrics, prompt,
                   session_state, cache, gemini_result>>

NextResolve == GetValueCall

SpecResolve == InitResolve /\ [][NextResolve]_vars

(***************************************************************************)
(* SpecNormalize: the per-item body of parse_apify_data on a drawn record. *)
(***************************************************************************)
InitNormalize ==
    /\ pc = "item"
    /\ item \in Items
    /\ video_info = Idle
    /\ call = Idle
    /\ ret = Idle
    /\ raw_data = Idle
    /\ df = Idle
    /\ metrics = Idle
    /\ prompt = Idle
    /\ session_state = Idle
    /\ cache = Idle
    /\ gemini_result = Idle

Normalize ==
    /\ pc = "item"
    /\ video_info' = NormalizeItem(item)
    /\ pc' = "normalized"
    /\ UNCHANGED <<call, ret, item, raw_data, df, metrics, prompt,
                   session_state, cache, gemini_result>>

NextNormalize == Normalize

SpecNormalize == InitNormalize /\ [][NextNormalize]_vars

(***************************************************************************)
(* The pipeline parse_apify_data, calculate_metrics, get_gemini_analysis   *)
(* applied in turn to a drawn batch.  SpecTable draws short batches that   *)
(* differ in createTime and playCount, SpecMetrics rows that differ in the *)
(* four counts, SpecTrend long batches around the 20 rows of the trend.    *)
(***************************************************************************)
SeqsUpTo(S, n) == UNION { [1..k -> S] : k \in 0..n }

Username == "creator"

MaxBatch == 4
TableTimes == {1700000000, 1700000060, 1700000120}
TablePlays == {10, 50}
TableRecord(c, p) == MapV(("createTime" :> IntV(c)) @@ ("playCount" :> IntV(p)))
TableBatches == SeqsUpTo({ TableRecord(c, p) : c \in TableTimes, p \in TablePlays }, MaxBatch)

MaxRows == 2
CountRecord(p, d, sh, c) ==
    MapV(("playCount" :> IntV(p)) @@ ("diggCount" :> IntV(d))
         @@ ("shareCount" :> IntV(sh)) @@ ("commentCount" :> IntV(c)))
CountBatches ==
    SeqsUpTo({ CountRecord(p, d, sh, c) :
                 p \in {0, 3, 1000}, d \in {0, 100}, sh \in {0, 10}, c \in {5} },
             MaxRows)

MaxLen == 21
TrendPlays == {0, 50, 100}
\* n records, the i-th most recent playing a when among the k most recent, else b
TrendBatch(n, k, a, b) ==
    [i \in 1..n |-> TableRecord(1700000000 + 60 * i, IF i > n - k THEN a ELSE b)]
TrendBatches ==
    { TrendBatch(n, k, a, b) : n \in 0..MaxLen, k \in 0..MaxLen, a \in TrendPlays, b \in TrendPlays }

InitPipeline(batches) ==
    /\ pc = "raw"
    /\ raw_data \in batches
    /\ df = Idle
    /\ metrics = Idle
    /\ prompt = Idle
    /\ session_state = Idle
    /\ cache = Idle
    /\ gemini_result = Idle
    /\ call = Idle
    /\ ret = Idle
    /\ item = Idle
    /\ video_info = Idle

Parse ==
    /\ pc = "raw"
    /\ \E out \in ParseOutcomes(raw_data) :
          /\ df' = out
          /\ pc' = IF out.t = "raise" THEN "raised" ELSE "parsed"
    /\ UNCHANGED <<call, ret, item, video_info, raw_data, metrics, prompt,
                   session_state, cache, gemini_result>>

Calculate ==
    /\ pc = "parsed"
    /\ \E out \in CalculateOutcomes(df) :
          /\ metrics' = out.metrics
          /\ df' = out.df
          /\ pc' = IF out.metrics.t = "raise" THEN "raised" ELSE "measured"
    /\ UNCHANGED <<call, ret, item, video_info, raw_data, prompt,
                   session_state, cache, gemini_result>>

BuildPrompt ==
    /\ pc = "measured"
    /\ prompt' = IF PromptRaises(metrics) THEN Raise("TypeError")
                 ELSE Prompt(metrics, Username)
    /\ pc' = "prompted"
    /\ UNCHANGED <<call, ret, item, video_info, raw_data, df, metrics,
                   session_state, cache, gemini_result>>

NextPipeline == Parse \/ Calculate \/ BuildPrompt

InitTable == InitPipeline(TableBatches)
SpecTable == InitTable /\ [][NextPipeline]_vars

InitMetrics == InitPipeline(CountBatches)
SpecMetrics == InitMetrics /\ [][NextPipeline]_vars

InitTrend == InitPipeline(TrendBatches)
SpecTrend == InitTrend /\ [][NextPipeline]_vars

(***************************************************************************)
(* Spec: the Streamlit session.  Every action is one run of the script:    *)
(* app.py 29-44 (session defaults), 53-77 (the inputs), 383-410 (the       *)
(* handler of the analyze button).                                         *)
(***************************************************************************)
\* init_session_state, lines 29-44: no "metrics" entry is created
InitialSession ==
    [apify_key |-> "", gemini_key |-> "", tiktok_username |-> "",
     df_videos |-> Null, analysis_done |-> FALSE, gemini_analysis |-> Null]

ApifyKeys == {"", "apify_api_1"}
GeminiKeys == {"", "AIzaSy_1"}
TypedUsernames == {"", "alice", "@alice", "bob"}
\* line 77: .replace("@", "").strip() on the usernames typed
CleanUsername(u) == IF u = "@alice" THEN "alice" ELSE u

\* what the Apify actor may return for a profile; the empty list is also what
\* fetch_tiktok_data returns when the fetch fails (lines 137-139)
FetchBatches ==
    { <<>>,
      <<TableRecord(1700000000, 10)>>,
      <<TableRecord(1700000000, 50), TableRecord(1700000060, 10)>>,
      <<MapV("video" :> Null)>>,
      <<MapV(("playCount" :> StrV("12K")) @@ ("createTime" :> IntV(1700000000)))>> }

\* fetch_tiktok_data under st.cache_data, lines 108-139: a cached result is
\* returned for the same (apify_key, username), else the result is cached
FetchOutcomes(c, key, username) ==
    IF <<key, username>> \in DOMAIN c
    THEN {[raw |-> c[<<key, username>>], cache |-> c]}
    ELSE { [raw |-> b, cache |-> (<<key, username>> :> b) @@ c] : b \in FetchBatches }

\* the text the report generator answers a prompt with, and the message of
\* line 373
ReportText(p) == [t |-> "report", v |-> p]
GeminiFailure == StrV("Errore durante l'analisi Gemini")

\* get_gemini_analysis with no try/except around its body
GeminiOutcomes_uncaught(m, username) ==
    IF PromptRaises(m) THEN {Raise("TypeError")}
    ELSE {ReportText(Prompt(m, username)), Raise("Exception")}

\* get_gemini_analysis, lines 288-373: every exception of the body, of the
\* configuration and of the call of the model is caught and turned into the
\* failure message
GeminiOutcomes(m, username) ==
    IF PromptRaises(m) THEN {GeminiFailure}
    ELSE {ReportText(Prompt(m, username)), GeminiFailure}

\* st.session_state.k = val
Store(s, k, val) == (k :> val) @@ s

Ended(s, at, d, m, g) == [session |-> s, pc |-> at, df |-> d, metrics |-> m, gemini |-> g]

\* lines 390-410 on the fetched raw_data: the session the run leaves and where
\* it ended; an exception ends the run where it is raised, the entries stored
\* before it stay
AnalysisOutcomes(s, raw) ==
    IF raw = <<>> THEN {Ended(s, "no_data", Idle, Idle, Idle)}
    ELSE UNION {
        IF p.t = "raise" THEN {Ended(s, "parse_raised", p, Idle, Idle)}
        ELSE IF IsEmpty(p) THEN {Ended(s, "no_videos", p, Idle, Idle)}
        ELSE UNION {
            \* the frame stored at line 395 is the object calculate_metrics writes to
            LET s1 == Store(Store(s, "df_videos", c.df), "analysis_done", TRUE)
            IN  IF c.metrics.t = "raise"
                THEN {Ended(s1, "metrics_raised", c.df, c.metrics, Idle)}
                ELSE LET s2 == Store(s1, "metrics", c.metrics)
                     IN  { IF g.t = "raise"
                           THEN Ended(s2, "report_raised", c.df, c.metrics, g)
                           ELSE Ended(Store(s2, "gemini_analysis", g), "done",
                                      c.df, c.metrics, g) :
                             g \in GeminiOutcomes(c.metrics, s.tiktok_username) }
            : c \in CalculateOutcomes(p) }
        : p \in ParseOutcomes(raw) }

Init ==
    /\ pc = "idle"
    /\ session_state = InitialSession
    /\ cache = <<>>
    /\ raw_data = Idle
    /\ df = Idle
    /\ metrics = Idle
    /\ gemini_result = Idle
    /\ prompt = Idle
    /\ call = Idle
    /\ ret = Idle
    /\ item = Idle
    /\ video_info = Idle

\* a run of the script after an input was edited: lines 53-77
EditInputs ==
    /\ \E a \in ApifyKeys, g \in GeminiKeys, u \in TypedUsernames :
          session_state' = [session_state EXCEPT !.apify_key = a, !.gemini_key = g,
                                                 !.tiktok_username = CleanUsername(u)]
    /\ pc' = "idle"
    /\ raw_data' = Idle
    /\ df' = Idle
    /\ metrics' = Idle
    /\ gemini_result' = Idle
    /\ UNCHANGED <<call, ret, item, video_info, prompt, cache>>

\* a run of the script with the analyze button pressed (the button is enabled
\* by line 86 only with the three inputs filled): lines 383-410
AnalyzeClick ==
    /\ session_state.apify_key # ""
    /\ session_state.gemini_key # ""
    /\ session_state.tiktok_username # ""
    /\ \E f \in FetchOutcomes(cache, session_state.apify_key, session_state.tiktok_username) :
          /\ cache' = f.cache
          /\ raw_data' = f.raw
          /\ \E o \in AnalysisOutcomes(session_state, f.raw) :
                /\ session_state' = o.session
                /\ pc' = o.pc
                /\ df' = o.df
                /\ metrics' = o.metrics
                /\ gemini_result' = o.gemini
    /\ UNCHANGED <<call, ret, item, video_info, prompt>>

\* a cache entry reaches its ttl of 3600 s (line 108)
CacheExpire ==
    /\ \E k \in DOMAIN cache : cache' = [x \in DOMAIN cache \ {k} |-> cache[x]]
    /\ UNCHANGED <<pc, call, ret, item, video_info, raw_data, df, metrics, prompt,
                   session_state, gemini_result>>

Next == EditInputs \/ AnalyzeClick \/ CacheExpire

Spec == Init /\ [][Next]_vars

(***************************************************************************)
(* Claims about the record normaliser and the field resolver.              *)
(***************************************************************************)
DefaultRecord ==
    [id |-> StrV(""), text |-> StrV(""), createTime |-> IntV(0),
     createDate |-> StrV(""), duration |-> IntV(0), playCount |-> IntV(0),
     diggCount |-> IntV(0), shareCount |-> IntV(0), commentCount |-> IntV(0),
     collectCount |-> IntV(0), authorUsername |-> StrV(""),
     authorNickname |-> StrV(""), authorFollowers |-> IntV(0)]

\* every key the normaliser looks up in a record or in its sub-objects
RecognizedKeys ==
    {"stats", "video", "author", "authorStats"}
        \cup UNION { Range(k) : k \in {IdKeys, TextKeys, CreateTimeKeys, DurationKeys,
                                        PlayKeys, DiggKeys, ShareKeys, CommentKeys,
                                        CollectKeys, UsernameKeys, NicknameKeys,
                                        FollowerKeys} }

\* C1: normalising a record never raises: a record whose author, authorStats,
\* stats or video entry is present but not a mapping still yields a VideoRecord,
\* and the author fields read from a non-mapping author entry are the defaults.
C1_NormalizeNeverRaises ==
    pc = "normalized" =>
        /\ video_info.t = "rec"
        /\ ~IsDict(AuthorData(item)) =>
              /\ video_info.v.authorUsername = StrV("")
              /\ video_info.v.authorNickname = StrV("")
              /\ video_info.v.authorFollowers = IntV(0)

\* the keys of the list that obj holds with a non-null value
NonNullHits(obj, keys) ==
    { i \in DOMAIN keys : IsDict(obj) /\ Has(obj, keys[i]) /\ obj.v[keys[i]].t # "null" }

Min(S) == CHOOSE x \in S : \A y \in S : x <= y

\* C2: get_value returns the value of the first key, in the order of keys, that
\* is present with a non-null value (skipping earlier keys present with null),
\* and the default only when obj is no mapping or no key has a non-null value.
C2_FirstNonNullValue ==
    pc = "returned" =>
        LET hits == NonNullHits(call.obj, call.keys)
        IN  ret = IF hits = {} THEN call.default
                  ELSE call.obj.v[call.keys[Min(hits)]]

\* C3: every field of a produced VideoRecord is present and non-null, and a
\* record with no recognised key yields the record of defaults: the counts,
\* duration, createTime and authorFollowers 0, the strings empty.
C3_FieldsPresentNonNull ==
    (pc = "normalized" /\ video_info.t = "rec") =>
        /\ DOMAIN video_info.v = Range(BaseColumns)
        /\ \A c \in Range(BaseColumns) : video_info.v[c].t # "null"
        /\ (DOMAIN item.v \cap RecognizedKeys = {}) => video_info.v = DefaultRecord

C3_Witness ==
    /\ pc = "normalized"
    /\ video_info.t = "rec"
    /\ DOMAIN item.v # {}
    /\ DOMAIN item.v \cap RecognizedKeys = {}
    /\ video_info.v = DefaultRecord

(***************************************************************************)
(* Claims about the table builder and the metrics engine.                  *)
(***************************************************************************)
NormRows(raw) == [i \in DOMAIN raw |-> NormalizeItem(raw[i]).v]

\* the rows in descending order of the int column col, equal values in row order
StableDesc(rows, col) == Take(rows, StableIdx(Column(rows, col), -1, DOMAIN rows))
StableAsc(rows, col) == Take(rows, StableIdx(Column(rows, col), 1, DOMAIN rows))

\* C4: for a non-empty batch the table is the normalised records sorted by
\* descending createTime, records of equal createTime in their input order.
C4_StableDescendingSort ==
    (pc = "parsed" /\ raw_data # <<>>) =>
        /\ df.t = "df"
        /\ df.rows = StableDesc(NormRows(raw_data), "createTime")

ScalarKeys ==
    {"total_videos", "avg_views", "avg_likes", "avg_shares", "avg_comments",
     "total_views", "total_engagement", "avg_viral_ratio", "avg_engagement_rate",
     "avg_conversion_potential", "trend"}
SummaryScalarKeys ==
    {"total_videos_analyzed", "avg_views", "avg_likes", "avg_shares", "avg_comments",
     "avg_engagement_rate", "avg_viral_ratio", "trend_percentage"}
IsZero(x) == x.t \in {"int", "float"} /\ RatOf(x)[1] = 0

\* C5: for an empty table calculate_metrics returns every aggregate scalar as 0
\* and top3, flop3 as empty lists, and the report summary reads 0 for each scalar.
C5_EmptyTableZeroSummary ==
    (pc \in {"measured", "prompted"} /\ IsEmpty(df)) =>
        /\ \A k \in ScalarKeys : Has(metrics, k) /\ IsZero(metrics.v[k])
        /\ \A k \in {"top3", "flop3"} : Has(metrics, k) /\ metrics.v[k] = ListV(<<>>)
        /\ pc = "prompted" =>
              \A k \in SummaryScalarKeys : IsZero(prompt.data_summary.v[k])

\* x = n / d for the fraction x, d > 0
IsQuotient(x, n, d) == x[2] > 0 /\ x[1] * d = n * x[2]

\* C6: in every row viralRatio = shareCount / diggCount (0 when diggCount = 0),
\* engagementRate = (diggCount + shareCount + commentCount) / playCount * 100 and
\* conversionPotential = (shareCount * 2 + commentCount) / playCount * 100 (both 0
\* when playCount = 0); 1000 plays, 100 likes, 10 shares, 5 comments give 0.1,
\* 11.5 and 2.5.
C6_DerivedRatios ==
    (pc = "measured" /\ ~IsEmpty(df)) =>
        \A i \in DOMAIN df.rows :
            LET row == df.rows[i]
                p == row.playCount.v
                d == row.diggCount.v
                sh == row.shareCount.v
                c == row.commentCount.v
            IN  /\ IF d > 0 THEN IsQuotient(row.viralRatio.v, sh, d)
                             ELSE row.viralRatio.v[1] = 0
                /\ IF p > 0 THEN IsQuotient(row.engagementRate.v, (d + sh + c) * 100, p)
                             ELSE row.engagementRate.v[1] = 0
                /\ IF p > 0 THEN IsQuotient(row.conversionPotential.v, (sh * 2 + c) * 100, p)
                             ELSE row.conversionPotential.v[1] = 0
                /\ (p = 1000 /\ d = 100 /\ sh = 10 /\ c = 5) =>
                      /\ row.viralRatio.v = <<1, 10>>
                      /\ row.engagementRate.v = <<23, 2>>
                      /\ row.conversionPotential.v = <<5, 2>>

C6_Witness ==
    /\ pc = "measured"
    /\ \E i \in DOMAIN df.rows :
          /\ df.rows[i].playCount.v = 1000 /\ df.rows[i].diggCount.v = 100
          /\ df.rows[i].shareCount.v = 10 /\ df.rows[i].commentCount.v = 5
          /\ df.rows[i].engagementRate.v = <<23, 2>>
    /\ \E i \in DOMAIN df.rows :
          /\ df.rows[i].playCount.v = 0 /\ df.rows[i].diggCount.v = 0
          /\ df.rows[i].shareCount.v = 10
          /\ df.rows[i].viralRatio.v = <<0, 1>>

C8_Trend ==
    (pc = "measured" /\ ~IsEmpty(df)) =>
        LET play == Column(df.rows, "playCount")
            n == Len(play)
            sumR == SumInts(SubSeq(play, 1, 10))
            sumO == SumInts(SubSeq(play, n - 9, n))
            trend == metrics.v.trend
        IN  IF n < 20 \/ sumO = 0 THEN IsZero(trend)
            ELSE /\ trend.t = "float"
                 /\ IsQuotient(trend.v, (sumR - sumO) * 100, sumO)
                 /\ (n = 20 /\ sumR = 1000 /\ sumO = 500) => trend.v = <<100, 1>>

C8_Witness ==
    /\ pc = "measured"
    /\ Len(df.rows) = 20
    /\ \A i \in 1..10 : df.rows[i].playCount.v = 100
    /\ \A i \in 11..20 : df.rows[i].playCount.v = 50
    /\ metrics.v.trend = FloatV(<<100, 1>>)

\* the rows of d cut down to the columns cols
Restrict(d, cols) == [i \in DOMAIN d.rows |-> [c \in Range(cols) |-> d.rows[i][c]]]

\* C9 as stated: calculate_metrics leaves the table passed in unchanged, with
\* the same rows, row order and columns.
C9_TableUnchanged ==
    [][(pc = "parsed" /\ pc' = "measured") => df' = df]_vars

\* C9 as amended: the call keeps the rows, their order and the cells of the
\* columns the table had, and on a non-empty table it appends the columns
\* viralRatio, engagementRate and conversionPotential to the table passed in.
C9_DerivedColumnsAdded ==
    [][(pc = "parsed" /\ pc' = "measured") =>
          /\ Restrict(df', df.columns) = df.rows
          /\ df'.columns = IF IsEmpty(df) THEN df.columns
                           ELSE df.columns \o DerivedColumns
          /\ \A i \in DOMAIN df'.rows : DOMAIN df'.rows[i] = Range(df'.columns)]_vars

C9_Witness ==
    /\ pc = "measured"
    /\ Len(df.rows) >= 2
    /\ df.columns = BaseColumns \o DerivedColumns
    /\ Restrict(df, BaseColumns) \in SortValuesDesc(NormRows(raw_data))

(***************************************************************************)
(* Claims about the analysis run.                                          *)
(***************************************************************************)
\* C10: a failure of the report generation does not abort the run: the run
\* completes, the table and the metrics it computed are stored in the session
\* and exposed (analysis_done), and the stored report is the failure message.
C10_ReportFailureKeepsResults ==
    /\ pc # "report_raised"
    /\ (pc = "done" /\ gemini_result = GeminiFailure) =>
          /\ session_state.analysis_done = TRUE
          /\ session_state.df_videos = df
          /\ "metrics" \in DOMAIN session_state
          /\ session_state.metrics = metrics
          /\ session_state.gemini_analysis = GeminiFailure
          /\ \E p \in ParseOutcomes(raw_data) :
                [metrics |-> metrics, df |-> df] \in CalculateOutcomes(p)

C10_Witness ==
    /\ pc = "done"
    /\ gemini_result = GeminiFailure
    /\ session_state.gemini_analysis = GeminiFailure
    /\ session_state.analysis_done = TRUE
    /\ Len(session_state.df_videos.rows) = 2
    /\ session_state.metrics.v.total_videos = IntV(2)

\* the dashboard condition of line 413
Exposed(s) == s.analysis_done = TRUE /\ s.df_videos # Null

\* d, m and g are the table, the metrics and the report of one run of lines
\* 392-404 that reached its end on some fetched batch for some username
FromOneCompletedRun(d, m, g) ==
    \E raw \in FetchBatches :
        \E p \in { q \in ParseOutcomes(raw) : q.t = "df" } :
            /\ m.t # "raise"
            /\ [metrics |-> m, df |-> d] \in CalculateOutcomes(p)
            /\ \E u \in { CleanUsername(t) : t \in TypedUsernames } :
                  g \in GeminiOutcomes(m, u)

\* C11: in every state in which results are exposed to the dashboard
\* (analysis_done and df_videos set) the session holds a metrics value, and the
\* stored table, metrics and report come from one run that ran to completion,
\* also after a run whose metrics computation or report generation failed.
C11_NoPartialResults ==
    Exposed(session_state) =>
        /\ "metrics" \in DOMAIN session_state
        /\ FromOneCompletedRun(session_state.df_videos, session_state.metrics,
                               session_state.gemini_analysis)

RunEnds == {"no_data", "parse_raised", "no_videos", "metrics_raised",
            "report_raised", "done"}

\* C12: once a run of the analyze button has returned, whatever its fetch
\* gave, the results the session exposes are the table, metrics and report
\* that this run computed for the username entered: nothing stored by an
\* earlier run is exposed any more.
C12_LatestRunReplacesResults ==
    (pc \in RunEnds /\ Exposed(session_state)) =>
        /\ pc = "done"
        /\ session_state.df_videos = df
        /\ "metrics" \in DOMAIN session_state
        /\ session_state.metrics = metrics
        /\ session_state.gemini_analysis = gemini_result
        /\ gemini_result \in GeminiOutcomes(metrics, session_state.tiktok_username)

\* C13: the duration of a record of the nested shape is the duration entry of
\* its video sub-object, 0 when there is none; the duration of a flat or
\* freeform record is the duration entry of its video sub-object when that is
\* a mapping, else 0.
C13_DurationFromVideoObject ==
    (pc = "normalized" /\ video_info.t = "rec") =>
        LET v == Get(item, "video", Null)
        IN  video_info.v.duration =
                IF IsDict(v) /\ Has(v, "duration") /\ v.v["duration"].t # "null"
                THEN v.v["duration"] ELSE IntV(0)

====
